---- MODULE Spec2Model ----
(***************************************************************************)
(* A model of the AirAware front end: the App state container (stations,   *)
(* loading, routesResult, picked), the API client, the MapView marker and  *)
(* polyline derivations and the RoutePanel summary.                        *)
(***************************************************************************)
EXTENDS Integers, Sequences, FiniteSets

(***************************************************************************)
(* Bounds of the model.                                                    *)
(***************************************************************************)
MaxStations == 2
MaxRequests == 2
MaxStrLen == 2
MaxEntries == 2
MaxPoints == 2

(***************************************************************************)
(* JavaScript values.  A value is undefined, null, a string (a sequence of *)
(* one-character strings) or an integer number.                            *)
(***************************************************************************)
Undef == [t |-> "undef", s |-> <<>>, n |-> 0]
Null == [t |-> "null", s |-> <<>>, n |-> 0]
Str(cs) == [t |-> "str", s |-> cs, n |-> 0]
Num(k) == [t |-> "num", s |-> <<>>, n |-> k]

Digits == {"0", "1", "2", "3", "4", "5", "6", "7", "8", "9"}
DigitOf == [c \in Digits |->
             CASE c = "0" -> 0 [] c = "1" -> 1 [] c = "2" -> 2 [] c = "3" -> 3
               [] c = "4" -> 4 [] c = "5" -> 5 [] c = "6" -> 6 [] c = "7" -> 7
               [] c = "8" -> 8 [] c = "9" -> 9]
CharOf == [d \in 0..9 |-> CHOOSE c \in Digits : DigitOf[c] = d]

\* ToBoolean: undefined, null, "" and 0 are falsy.
Truthy(v) == \/ v.t = "str" /\ v.s # <<>>
             \/ v.t = "num" /\ v.n # 0

Nullish(v) == v.t \in {"undef", "null"}

\* a || b
OrElse(a, b) == IF Truthy(a) THEN a ELSE b

\* a ?? b
Coalesce(a, b) == IF Nullish(a) THEN b ELSE a

RECURSIVE NatToString(_)
NatToString(k) == IF k < 10 THEN <<CharOf[k]>>
                  ELSE NatToString(k \div 10) \o <<CharOf[k % 10]>>

\* ToString, as applied by parseFloat and by a template literal.
ToString(v) ==
  CASE v.t = "undef" -> <<"u", "n", "d", "e", "f", "i", "n", "e", "d">>
    [] v.t = "null" -> <<"n", "u", "l", "l">>
    [] v.t = "str" -> v.s
    [] v.t = "num" -> IF v.n < 0 THEN <<"-">> \o NatToString(0 - v.n)
                      ELSE NatToString(v.n)

(***************************************************************************)
(* parseFloat.  A number is sign, mantissa and decimal scale; NaN is the   *)
(* non-numeric sentinel.  The strings of the model hold no exponent and no *)
(* "Infinity", so the literal scanned is [+-] digits [. digits].           *)
(***************************************************************************)
NaN == [nan |-> TRUE, neg |-> FALSE, mant |-> 0, scale |-> 0]

RECURSIVE SkipWhite(_)
SkipWhite(cs) == IF cs # <<>> /\ Head(cs) = " " THEN SkipWhite(Tail(cs)) ELSE cs

RECURSIVE DigitRun(_)
DigitRun(cs) == IF cs # <<>> /\ Head(cs) \in Digits
                THEN <<Head(cs)>> \o DigitRun(Tail(cs))
                ELSE <<>>

RECURSIVE DigitsValue(_)
DigitsValue(ds) == IF ds = <<>> THEN 0
                   ELSE DigitsValue(SubSeq(ds, 1, Len(ds) - 1)) * 10 + DigitOf[ds[Len(ds)]]

RECURSIVE Normalise(_)
Normalise(x) == IF x.scale > 0 /\ x.mant % 10 = 0
                THEN Normalise([x EXCEPT !.mant = x.mant \div 10, !.scale = x.scale - 1])
                ELSE x

parseFloat(v) ==
  LET t == SkipWhite(ToString(v))
      signed == t # <<>> /\ Head(t) \in {"-", "+"}
      u == IF signed THEN Tail(t) ELSE t
      ip == DigitRun(u)
      r == SubSeq(u, Len(ip) + 1, Len(u))
      fp == IF r # <<>> /\ Head(r) = "." THEN DigitRun(Tail(r)) ELSE <<>>
  IN IF ip = <<>> /\ fp = <<>> THEN NaN
     ELSE Normalise([nan |-> FALSE, neg |-> signed /\ Head(t) = "-",
                     mant |-> DigitsValue(ip \o fp), scale |-> Len(fp)])

isNaN(x) == x.nan

(***************************************************************************)
(* Station records as the backend sends them: every field may be absent    *)
(* (Undef) under either naming convention.                                 *)
(***************************************************************************)
StationFields == {"station_id", "StationId", "station_name", "StationName",
                  "latitude", "Latitude", "longitude", "Longitude"}

BlankStation == [f \in StationFields |-> Undef]

\* s.station_id || s.StationId
stationId(s) == OrElse(s.station_id, s.StationId)

\* Variant: the lower-case name field tried first.
stationNameLowerFirst(s) ==
  OrElse(OrElse(s.station_name, s.StationName), stationId(s))

\* s.StationName || s.station_name || id
stationName(s) == OrElse(OrElse(s.StationName, s.station_name), stationId(s))

toLat(s) == parseFloat(Coalesce(s.latitude, s.Latitude))

toLon(s) == parseFloat(Coalesce(s.longitude, s.Longitude))

\* The record {id, name, lat, lon} that MapView derives for one station.
Normalize(s) == [id |-> stationId(s), name |-> stationName(s),
                 lat |-> toLat(s), lon |-> toLon(s)]

(***************************************************************************)
(* A selection slot holds null or a station object.                        *)
(***************************************************************************)
NoPick == [k |-> "null", o |-> BlankStation]
Pick(s) == [k |-> "obj", o |-> s]
PickTruthy(p) == p.k = "obj"

\* a && b on selection slots: the value is a slot, not a boolean.
AndAlso(a, b) == IF PickTruthy(a) THEN b ELSE a

(***************************************************************************)
(* Prediction responses.  A body is null or an object with an optional     *)
(* routes array and an optional ors_geometry.                              *)
(***************************************************************************)
NoArr == [k |-> "undef", items |-> <<>>]
Arr(xs) == [k |-> "array", items |-> xs]

Point(lon, lat) == [k |-> "pair", lon |-> lon, lat |-> lat]
BadPoint == [k |-> "other", lon |-> 0, lat |-> 0]
Line(pts) == [k |-> "array", pts |-> pts]
NotALine == [k |-> "other", pts |-> <<>>]
NoGeom == [k |-> "undef", items |-> <<>>]
NotAGeom == [k |-> "other", items |-> <<>>]
Geom(ls) == [k |-> "array", items |-> ls]

Route(i, avg, max, w) == [route_index |-> i, avg_forecast_pm2_5 |-> avg,
                          max_forecast_pm2_5 |-> max, waypoints |-> w]

NullBody == [k |-> "null", routes |-> NoArr, ors_geometry |-> NoGeom]
Body(rs, g) == [k |-> "obj", routes |-> rs, ors_geometry |-> g]

\* Variant: the points copied without the axis swap.
polylinesNoSwap(routesResult) ==
  LET g == IF routesResult.k = "null" THEN NoGeom ELSE routesResult.ors_geometry
      kept == SelectSeq(g.items, LAMBDA r : r.k = "array")
  IN IF g.k # "array" THEN [err |-> FALSE, lines |-> <<>>]
     ELSE IF \E i \in 1..Len(kept) : \E j \in 1..Len(kept[i].pts) :
                kept[i].pts[j].k # "pair"
          THEN [err |-> TRUE, lines |-> <<>>]
          ELSE [err |-> FALSE,
                lines |-> [i \in 1..Len(kept) |->
                             [j \in 1..Len(kept[i].pts) |->
                                <<kept[i].pts[j].lon, kept[i].pts[j].lat>>]]]

(***************************************************************************)
(* MapView: the polylines derived from the stored result.  Destructuring a *)
(* point that is not iterable throws, which fails the render (err).        *)
(***************************************************************************)
polylines(routesResult) ==
  LET g == IF routesResult.k = "null" THEN NoGeom ELSE routesResult.ors_geometry
      kept == SelectSeq(g.items, LAMBDA r : r.k = "array")
  IN IF g.k # "array" THEN [err |-> FALSE, lines |-> <<>>]
     ELSE IF \E i \in 1..Len(kept) : \E j \in 1..Len(kept[i].pts) :
                kept[i].pts[j].k # "pair"
          THEN [err |-> TRUE, lines |-> <<>>]
          ELSE [err |-> FALSE,
                lines |-> [i \in 1..Len(kept) |->
                             [j \in 1..Len(kept[i].pts) |->
                                <<kept[i].pts[j].lat, kept[i].pts[j].lon>>]]]

(***************************************************************************)
(* MapView: one element per station, null for a station whose latitude or  *)
(* longitude is NaN, else a marker with its popup's highlight state.       *)
(***************************************************************************)
NoMarker == [shown |-> FALSE, lat |-> NaN, lon |-> NaN, id |-> Undef,
             name |-> Undef, isStart |-> FALSE, isEnd |-> FALSE]

\* Variant: a station is skipped only when both coordinates are NaN.
MarkerOfBothNaN(s, picked) ==
  LET lat == toLat(s)
      lon == toLon(s)
      id == stationId(s)
  IN IF isNaN(lat) /\ isNaN(lon) THEN NoMarker
     ELSE [shown |-> TRUE, lat |-> lat, lon |-> lon, id |-> id,
           name |-> stationName(s),
           isStart |-> PickTruthy(picked.start) /\ id = stationId(picked.start.o),
           isEnd |-> PickTruthy(picked.end) /\ id = stationId(picked.end.o)]

MarkerOf(s, picked) ==
  LET lat == toLat(s)
      lon == toLon(s)
      id == stationId(s)
  IN IF isNaN(lat) \/ isNaN(lon) THEN NoMarker
     ELSE [shown |-> TRUE, lat |-> lat, lon |-> lon, id |-> id,
           name |-> stationName(s),
           isStart |-> PickTruthy(picked.start) /\ id = stationId(picked.start.o),
           isEnd |-> PickTruthy(picked.end) /\ id = stationId(picked.end.o)]

Markers(stations, picked) ==
  [i \in 1..Len(stations) |-> MarkerOf(stations[i], picked)]

(***************************************************************************)
(* App: the options of a selector.  The first option is the empty one; an  *)
(* option whose value prop is null or undefined takes its text as value.   *)
(***************************************************************************)
TextOf(v) == IF Nullish(v) THEN <<>> ELSE ToString(v)

OptionOf(s) ==
  LET id == stationId(s)
      nm == OrElse(OrElse(s.StationName, s.station_name), id)
  IN [value |-> IF Nullish(id) THEN TextOf(nm) ELSE ToString(id),
      text |-> TextOf(nm)]

\* picked.X ? (StationName || station_name || StationId || station_id) : placeholder
LabelOf(p, placeholder) ==
  IF PickTruthy(p)
  THEN TextOf(OrElse(OrElse(OrElse(p.o.StationName, p.o.station_name),
                            p.o.StationId), p.o.station_id))
  ELSE placeholder

Options(stations, label) ==
  <<[value |-> <<>>, text |-> label]>> \o
  [i \in 1..Len(stations) |-> OptionOf(stations[i])]

\* stations.find(s => (s.station_id || s.StationId) === id) || null
FindStation(stations, id) ==
  LET hits == {i \in 1..Len(stations) : stationId(stations[i]) = Str(id)}
  IN IF hits = {} THEN NoPick
     ELSE Pick(stations[CHOOSE i \in hits : \A j \in hits : i <= j])

(***************************************************************************)
(* RoutePanel: the "no route predicted yet" paragraph for a falsy result,  *)
(* else the summary rows, with "no valid predictions" when there are none. *)
(***************************************************************************)
FirstOf(a) == IF a.k # "array" THEN Null
              ELSE IF a.items = <<>> THEN Undef ELSE Num(a.items[1])

RoutePanel(routesResult) ==
  IF routesResult.k = "null"
  THEN [view |-> "noRouteYet", noValid |-> FALSE, summary |-> <<>>]
  ELSE LET routes == IF routesResult.routes.k = "array"
                     THEN routesResult.routes.items ELSE <<>>
           summary == [i \in 1..Len(routes) |->
                         [idx |-> routes[i].route_index,
                          avg |-> FirstOf(routes[i].avg_forecast_pm2_5),
                          max |-> FirstOf(routes[i].max_forecast_pm2_5),
                          waypoints |-> routes[i].waypoints]]
       IN [view |-> "summary", noValid |-> Len(summary) = 0, summary |-> summary]

(***************************************************************************)
(* The data the backend answers with in the application runs.              *)
(***************************************************************************)
SampleStations ==
  { [BlankStation EXCEPT !.station_id = Str(<<"a">>), !.StationId = Str(<<"b">>),
                         !.station_name = Str(<<"A">>), !.StationName = Str(<<"B">>),
                         !.latitude = Str(<<"1">>), !.Latitude = Str(<<"x">>),
                         !.longitude = Str(<<"2">>)],
    [BlankStation EXCEPT !.StationId = Str(<<"b">>), !.StationName = Str(<<"B">>),
                         !.Latitude = Num(3), !.Longitude = Num(0)],
    [BlankStation EXCEPT !.station_id = Str(<<"c">>),
                         !.latitude = Str(<<"x">>), !.longitude = Str(<<"1">>)] }

SeqsUpTo(S, n) == UNION {[1..k -> S] : k \in 0..n}

\* The body of GET /api/stations: absent/null, or an array of records.
StationResponses ==
  {[k |-> "null", items |-> <<>>]} \cup
  {[k |-> "array", items |-> xs] : xs \in SeqsUpTo(SampleStations, MaxStations)}

\* The bodies of POST /api/predict-route; k = "null" is a null or empty body.
SampleBodies ==
  { NullBody,
    Body(NoArr, NoGeom),
    Body(Arr(<<>>), NotAGeom),
    Body(Arr(<<Route(1, Arr(<<5>>), Arr(<<9>>), 4)>>),
         Geom(<<Line(<<Point(10, 20), Point(11, 21)>>)>>)),
    Body(Arr(<<Route(1, Arr(<<5>>), Arr(<<9>>), 4), Route(2, NoArr, Arr(<<>>), 0)>>),
         Geom(<<NotALine, Line(<<Point(11, 21)>>)>>)) }

(***************************************************************************)
(* State.  stations, loading, routesResult and picked are the App's state; *)
(* stationLoad and inflight are the outstanding network calls (inflight by *)
(* the number of the request); alerts and sent count the notifications     *)
(* shown and the predict requests issued; lastEvent is the event handled   *)
(* last, with the request it posted; lastOk is the last successful predict *)
(* response (raced: its request was already outstanding when the response  *)
(* before it arrived).  normIn/normOut and geomIn/geomOut hold the         *)
(* argument and value of the station normalisation and of the overlay      *)
(* derivation.                                                             *)
(***************************************************************************)
VARIABLES stations, loading, routesResult, picked, stationLoad, inflight,
          alerts, sent, lastEvent, lastOk, normIn, normOut, geomIn, geomOut

appVars == <<stations, loading, routesResult, picked, stationLoad, inflight,
             alerts, sent, lastEvent, lastOk>>
pureVars == <<normIn, normOut, geomIn, geomOut>>
vars == <<stations, loading, routesResult, picked, stationLoad, inflight,
          alerts, sent, lastEvent, lastOk, normIn, normOut, geomIn, geomOut>>

NoRequest == [rid |-> 0, source |-> <<>>, destination |-> <<>>]

Event(kind, body, request) ==
  [kind |-> kind, body |-> body, issued |-> request.rid # 0, request |-> request]

NoOutput == [done |-> FALSE, id |-> Undef, name |-> Undef, lat |-> NaN, lon |-> NaN]
NoOverlay == [done |-> FALSE, err |-> FALSE, lines |-> <<>>]

\* The App after mount: the initial state of every useState, and the
\* station load issued by the effect.
AppInit == /\ stations = <<>>
           /\ loading = FALSE
           /\ routesResult = NullBody
           /\ picked = [start |-> NoPick, end |-> NoPick]
           /\ stationLoad = "pending"
           /\ inflight = {}
           /\ alerts = 0
           /\ sent = 0
           /\ lastEvent = Event("mount", NullBody, NoRequest)
           /\ lastOk = [some |-> FALSE, body |-> NullBody, rid |-> 0, prevRid |-> 0,
                        sentThen |-> 0, raced |-> FALSE]

Init == /\ AppInit
        /\ normIn = BlankStation
        /\ normOut = NoOutput
        /\ geomIn = NullBody
        /\ geomOut = NoOverlay

\* Variant: picked.start || picked.end
canPredictEither == IF PickTruthy(picked.start) THEN picked.start ELSE picked.end

\* picked.start && picked.end
canPredict == AndAlso(picked.start, picked.end)

\* Variant: disabled={!canPredict}
disabledIgnoresLoading == ~PickTruthy(canPredict)

\* disabled={!canPredict || loading}
disabled == ~PickTruthy(canPredict) \/ loading

startLabel == LabelOf(picked.start, <<"S">>)
endLabel == LabelOf(picked.end, <<"E">>)

(***************************************************************************)
(* The station load of the mount effect.                                   *)
(***************************************************************************)
\* r.data || [] in fetchStations, data || [] in the effect
fetchStations(data) == IF data.k = "array" THEN data.items ELSE <<>>

StationsLoaded(data) ==
  /\ stationLoad = "pending"
  /\ stations' = fetchStations(data)
  /\ stationLoad' = "loaded"
  /\ lastEvent' = Event("stationsLoaded", NullBody, NoRequest)
  /\ UNCHANGED <<loading, routesResult, picked, inflight, alerts, sent, lastOk>>
  /\ UNCHANGED pureVars

StationsFailed ==
  /\ stationLoad = "pending"
  /\ stationLoad' = "failed"
  /\ alerts' = alerts + 1
  /\ lastEvent' = Event("stationsFailed", NullBody, NoRequest)
  /\ UNCHANGED <<stations, loading, routesResult, picked, inflight, sent, lastOk>>
  /\ UNCHANGED pureVars

(***************************************************************************)
(* Selection: the popup buttons of a rendered marker and the two selectors.*)
(***************************************************************************)
setStart(p) == picked' = [picked EXCEPT !.start = p]
setEnd(p) == picked' = [picked EXCEPT !.end = p]

MarkerSetStart(i) ==
  /\ Markers(stations, picked)[i].shown
  /\ setStart(Pick(stations[i]))
  /\ lastEvent' = Event("setStart", NullBody, NoRequest)
  /\ UNCHANGED <<stations, loading, routesResult, stationLoad, inflight, alerts,
                 sent, lastOk>>
  /\ UNCHANGED pureVars

MarkerSetEnd(i) ==
  /\ Markers(stations, picked)[i].shown
  /\ setEnd(Pick(stations[i]))
  /\ lastEvent' = Event("setEnd", NullBody, NoRequest)
  /\ UNCHANGED <<stations, loading, routesResult, stationLoad, inflight, alerts,
                 sent, lastOk>>
  /\ UNCHANGED pureVars

SelectStart(n) ==
  /\ setStart(FindStation(stations, Options(stations, startLabel)[n].value))
  /\ lastEvent' = Event("setStart", NullBody, NoRequest)
  /\ UNCHANGED <<stations, loading, routesResult, stationLoad, inflight, alerts,
                 sent, lastOk>>
  /\ UNCHANGED pureVars

SelectEnd(n) ==
  /\ setEnd(FindStation(stations, Options(stations, endLabel)[n].value))
  /\ lastEvent' = Event("setEnd", NullBody, NoRequest)
  /\ UNCHANGED <<stations, loading, routesResult, stationLoad, inflight, alerts,
                 sent, lastOk>>
  /\ UNCHANGED pureVars

(***************************************************************************)
(* Predict.  onPredict runs to its await in one step: the early return, or *)
(* setLoading(true) and the request handed to predictRoute.                *)
(***************************************************************************)
\* `${lat},${lon}`
CoordString(s) ==
  ToString(Coalesce(s.latitude, s.Latitude)) \o <<",">> \o
  ToString(Coalesce(s.longitude, s.Longitude))

\* The request posted; rid stands for the connection its response comes
\* back on, not for anything the client sends or keeps.
predictRoute(source, destination) ==
  [rid |-> sent + 1, source |-> source, destination |-> destination]

\* Variant: no early return; reading a field of a null selection throws
\* after setLoading(true).
onPredictUnguarded ==
  /\ loading' = TRUE
  /\ IF PickTruthy(canPredict)
     THEN /\ inflight' = inflight \cup {sent + 1}
          /\ sent' = sent + 1
          /\ lastEvent' = Event("predict", NullBody,
               predictRoute(CoordString(picked.start.o), CoordString(picked.end.o)))
     ELSE /\ lastEvent' = Event("predict", NullBody, NoRequest)
          /\ UNCHANGED <<inflight, sent>>

onPredict ==
  IF ~PickTruthy(canPredict)
  THEN /\ lastEvent' = Event("predict", NullBody, NoRequest)
       /\ UNCHANGED <<loading, inflight, sent>>
  ELSE /\ loading' = TRUE
       /\ inflight' = inflight \cup {sent + 1}
       /\ sent' = sent + 1
       /\ lastEvent' = Event("predict", NullBody,
            predictRoute(CoordString(picked.start.o), CoordString(picked.end.o)))

\* A click on the Predict Route button: a disabled button fires no handler.
ClickPredict ==
  /\ sent < MaxRequests
  /\ IF disabled
     THEN /\ lastEvent' = Event("predict", NullBody, NoRequest)
          /\ UNCHANGED <<loading, inflight, sent>>
     ELSE onPredict
  /\ UNCHANGED <<stations, routesResult, picked, stationLoad, alerts, lastOk>>
  /\ UNCHANGED pureVars

\* onPredict invoked past the button's disabled state.
CallPredict ==
  /\ sent < MaxRequests
  /\ onPredict
  /\ UNCHANGED <<stations, routesResult, picked, stationLoad, alerts, lastOk>>
  /\ UNCHANGED pureVars

\* Variant: a response is stored only if no newer request was issued.
PredictOkLatestOnly(rid, body) ==
  /\ rid \in inflight
  /\ inflight' = inflight \ {rid}
  /\ routesResult' = IF rid = sent THEN body ELSE routesResult
  /\ loading' = FALSE
  /\ lastEvent' = Event("predictOk", body, NoRequest)
  /\ lastOk' = [some |-> TRUE, body |-> body, rid |-> rid,
                prevRid |-> lastOk.rid, sentThen |-> sent,
                raced |-> lastOk.some /\ rid <= lastOk.sentThen]
  /\ UNCHANGED <<stations, picked, stationLoad, alerts, sent>>
  /\ UNCHANGED pureVars

\* Variant: setRoutesResult(prev => prev || res)
PredictOkKeepsFirst(rid, body) ==
  /\ rid \in inflight
  /\ inflight' = inflight \ {rid}
  /\ routesResult' = IF routesResult.k = "null" THEN body ELSE routesResult
  /\ loading' = FALSE
  /\ lastEvent' = Event("predictOk", body, NoRequest)
  /\ lastOk' = [some |-> TRUE, body |-> body, rid |-> rid,
                prevRid |-> lastOk.rid, sentThen |-> sent,
                raced |-> lastOk.some /\ rid <= lastOk.sentThen]
  /\ UNCHANGED <<stations, picked, stationLoad, alerts, sent>>
  /\ UNCHANGED pureVars

\* The request resolves: setRoutesResult(res); setLoading(false).
PredictOk(rid, body) ==
  /\ rid \in inflight
  /\ inflight' = inflight \ {rid}
  /\ routesResult' = body
  /\ loading' = FALSE
  /\ lastEvent' = Event("predictOk", body, NoRequest)
  /\ lastOk' = [some |-> TRUE, body |-> body, rid |-> rid,
                prevRid |-> lastOk.rid, sentThen |-> sent,
                raced |-> lastOk.some /\ rid <= lastOk.sentThen]
  /\ UNCHANGED <<stations, picked, stationLoad, alerts, sent>>
  /\ UNCHANGED pureVars

\* Variant: setLoading(false) moved inside the try block.
PredictFailedKeepsLoading(rid) ==
  /\ rid \in inflight
  /\ inflight' = inflight \ {rid}
  /\ alerts' = alerts + 1
  /\ lastEvent' = Event("predictFailed", NullBody, NoRequest)
  /\ UNCHANGED <<stations, loading, routesResult, picked, stationLoad, sent, lastOk>>
  /\ UNCHANGED pureVars

\* The request rejects: alert(...); setLoading(false).
PredictFailed(rid) ==
  /\ rid \in inflight
  /\ inflight' = inflight \ {rid}
  /\ alerts' = alerts + 1
  /\ loading' = FALSE
  /\ lastEvent' = Event("predictFailed", NullBody, NoRequest)
  /\ UNCHANGED <<stations, routesResult, picked, stationLoad, sent, lastOk>>
  /\ UNCHANGED pureVars

Next ==
  \/ \E data \in StationResponses : StationsLoaded(data)
  \/ StationsFailed
  \/ \E i \in 1..Len(stations) : MarkerSetStart(i)
  \/ \E i \in 1..Len(stations) : MarkerSetEnd(i)
  \/ \E n \in 1..(Len(stations) + 1) : SelectStart(n)
  \/ \E n \in 1..(Len(stations) + 1) : SelectEnd(n)
  \/ ClickPredict
  \/ \E rid \in inflight : \E body \in SampleBodies : PredictOk(rid, body)
  \/ \E rid \in inflight : PredictFailed(rid)

Spec == Init /\ [][Next]_vars

NextBypass == Next \/ CallPredict

SpecBypass == Init /\ [][NextBypass]_vars

(***************************************************************************)
(* The station normalisation on its own: one record, any mix of the two    *)
(* naming conventions, normalised as MapView does for each station.        *)
(***************************************************************************)
IdValues == {Undef, Null, Str(<<>>), Str(<<"a">>), Str(<<"b">>), Num(0), Num(5)}

CoordChars == {"0", "1", ".", "-", " ", "x"}

CoordValues == {Undef, Null, Num(0), Num(7)} \cup
               {Str(cs) : cs \in SeqsUpTo(CoordChars, MaxStrLen)}

\* The records normalised: the id and name fields over every mix of the two
\* conventions, or the two fields of one coordinate over every mix.
NormInput(s) ==
  \/ \E a \in IdValues, b \in IdValues, c \in IdValues, d \in IdValues :
       s = [BlankStation EXCEPT !.station_id = a, !.StationId = b,
                                !.station_name = c, !.StationName = d]
  \/ \E a \in CoordValues, b \in CoordValues :
       s = [BlankStation EXCEPT !.latitude = a, !.Latitude = b,
                                !.longitude = Str(<<"1">>)]
  \/ \E a \in CoordValues, b \in CoordValues :
       s = [BlankStation EXCEPT !.longitude = a, !.Longitude = b,
                                !.Latitude = Num(7)]

InitNorm == /\ AppInit
            /\ NormInput(normIn)
            /\ normOut = NoOutput
            /\ geomIn = NullBody
            /\ geomOut = NoOverlay

NormalizeStation ==
  /\ ~normOut.done
  /\ normOut' = [done |-> TRUE, id |-> Normalize(normIn).id,
                 name |-> Normalize(normIn).name,
                 lat |-> Normalize(normIn).lat, lon |-> Normalize(normIn).lon]
  /\ UNCHANGED <<normIn, geomIn, geomOut>>
  /\ UNCHANGED appVars

NextNorm == NormalizeStation

SpecNorm == InitNorm /\ [][NextNorm]_vars

(***************************************************************************)
(* The overlay derivation on its own: one stored result, any geometry.     *)
(***************************************************************************)
SamplePoints == {Point(10, 20), Point(11, 21), BadPoint}

GeomEntries == {NotALine} \cup {Line(ps) : ps \in SeqsUpTo(SamplePoints, MaxPoints)}

\* The stored results overlaid: null, no geometry, a geometry that is no
\* array, or an array of up to MaxEntries entries.
OverlayInput(b) ==
  \/ b \in {NullBody, Body(NoArr, NoGeom), Body(Arr(<<>>), NotAGeom)}
  \/ \E k \in 0..MaxEntries : \E ls \in [1..k -> GeomEntries] :
       b = Body(NoArr, Geom(ls))

InitOverlay == /\ AppInit
               /\ normIn = BlankStation
               /\ normOut = NoOutput
               /\ OverlayInput(geomIn)
               /\ geomOut = NoOverlay

BuildOverlay ==
  /\ ~geomOut.done
  /\ geomOut' = [done |-> TRUE, err |-> polylines(geomIn).err,
                 lines |-> polylines(geomIn).lines]
  /\ UNCHANGED <<normIn, normOut, geomIn>>
  /\ UNCHANGED appVars

NextOverlay == BuildOverlay

SpecOverlay == InitOverlay /\ [][NextOverlay]_vars

(***************************************************************************)
(* Properties.                                                             *)
(***************************************************************************)
BothSet == picked.start.k = "obj" /\ picked.end.k = "obj"

Completion == {"predictOk", "predictFailed"}

\* C1: while a predict request issued by onPredict is outstanding, loading
\* is true and the Predict Route button is disabled; issuing a request sets
\* loading, and loading falls only at the completion of the outstanding
\* request.
C1_LoadingWhileOutstanding ==
  /\ [](inflight # {} => loading /\ disabled)
  /\ [][~(inflight' \subseteq inflight) => loading']_vars
  /\ [][loading /\ ~loading' =>
          /\ lastEvent'.kind \in Completion
          /\ inflight # {}
          /\ inflight' = {}]_vars

C1_Witness == inflight # {} /\ loading /\ disabled /\ lastEvent.issued

\* C2: the stored result is null until a predict call succeeds and is then
\* the body of the last successful response; a successful response stores
\* its body, replacing a prior result, and no other event changes the
\* stored result.
C2_ResultIsLastSuccess ==
  /\ [](routesResult = IF lastOk.some THEN lastOk.body ELSE NullBody)
  /\ [][lastEvent'.kind = "predictOk" => routesResult' = lastEvent'.body]_vars
  /\ [][lastEvent'.kind # "predictOk" => routesResult' = routesResult]_vars

C2_Witness == /\ lastEvent.kind = "predictOk"
              /\ lastOk.prevRid # 0
              /\ routesResult = lastEvent.body
              /\ routesResult.k = "obj"

\* C3: a predict request is sent only when start and end are both set at
\* the trigger; a trigger with start or end unset sends nothing and leaves
\* loading, the stored result, the selection and the stations as they were.
C3_PredictNeedsBoth ==
  [][/\ ~(inflight' \subseteq inflight) => BothSet
     /\ sent' # sent => BothSet
     /\ (lastEvent'.kind = "predict" /\ ~BothSet) =>
          /\ ~lastEvent'.issued
          /\ UNCHANGED <<loading, routesResult, picked, inflight, sent, stations,
                         alerts>>]_vars

C3_Witness == lastEvent.kind = "predict" /\ ~lastEvent.issued /\ ~BothSet

\* C4: in every selection state, canPredict is truthy exactly when start
\* and end are both non-null.
C4_CanPredictIffBoth == PickTruthy(canPredict) <=> BothSet

C4_Witness == /\ lastEvent.kind = "setStart"
              /\ picked.start.k = "null"
              /\ picked.end.k = "obj"
              /\ ~PickTruthy(canPredict)

\* C5: a failure of either endpoint raises exactly one notification and
\* sends no further request; a failed station load leaves the station list
\* empty and is never reissued; a failed predict call leaves selection and
\* stored result unchanged and loading false, so the button is enabled
\* again whenever both stations are set.
C5_FailureScoped ==
  /\ [](stationLoad = "failed" => stations = <<>>)
  /\ [][lastEvent'.kind = "stationsFailed" =>
          /\ alerts' = alerts + 1
          /\ stations' = <<>>
          /\ UNCHANGED <<sent, inflight, picked, routesResult, loading>>]_vars
  /\ [][lastEvent'.kind = "predictFailed" =>
          /\ alerts' = alerts + 1
          /\ inflight' \subseteq inflight
          /\ ~loading'
          /\ disabled' <=> ~BothSet'
          /\ UNCHANGED <<sent, picked, routesResult, stations>>]_vars
  /\ [][stationLoad # "pending" => stationLoad' = stationLoad]_vars
  /\ [][sent' # sent => lastEvent'.kind = "predict"]_vars
  /\ [][alerts' # alerts =>
          lastEvent'.kind \in {"stationsFailed", "predictFailed"}]_vars

C5_Witness == /\ lastEvent.kind = "predictFailed"
              /\ ~loading
              /\ ~disabled
              /\ lastOk.some
              /\ routesResult = lastOk.body
              /\ stationLoad = "loaded"

NoRouteEntries(b) == b.k = "null" \/ b.routes.k # "array" \/ b.routes.items = <<>>

\* C6: the result panel shows "no route predicted yet" exactly when no
\* predict call has completed successfully, and shows "no valid
\* predictions" whenever the last successful response has no route entries
\* (an empty or missing routes array).
C6_PanelStates ==
  /\ (RoutePanel(routesResult).view = "noRouteYet") <=> ~lastOk.some
  /\ (lastOk.some /\ NoRouteEntries(lastOk.body)) =>
       /\ RoutePanel(routesResult).view = "summary"
       /\ RoutePanel(routesResult).noValid

ArrayEntries(g) == {i \in 1..Len(g.items) : g.items[i].k = "array"}

Rank(g, i) == Cardinality({j \in ArrayEntries(g) : j <= i})

AllPairs(g) == \A i \in ArrayEntries(g) : \A j \in 1..Len(g.items[i].pts) :
                 g.items[i].pts[j].k = "pair"

ExampleGeometry == Geom(<<Line(<<Point(10, 20), Point(11, 21)>>)>>)

\* C7: the overlay set has one polyline per array entry of the geometry, in
\* order, each with as many points as its source sequence and every pair
\* (lon, lat) turned into (lat, lon); non-array entries are dropped; a null
\* result or a geometry that is absent or not an array gives the empty set
\* and no error; [[[10,20],[11,21]]] gives [[[20,10],[21,11]]].
C7_OverlaySwapsAxes ==
  geomOut.done =>
    LET g == geomIn.ors_geometry
    IN /\ (geomIn.k = "null" \/ g.k # "array") =>
            ~geomOut.err /\ geomOut.lines = <<>>
       /\ (geomIn.k = "obj" /\ g.k = "array" /\ AllPairs(g)) =>
            /\ ~geomOut.err
            /\ Len(geomOut.lines) = Cardinality(ArrayEntries(g))
            /\ \A i \in ArrayEntries(g) :
                 LET src == g.items[i].pts
                     line == geomOut.lines[Rank(g, i)]
                 IN /\ Len(line) = Len(src)
                    /\ \A j \in 1..Len(src) : line[j] = <<src[j].lat, src[j].lon>>
       /\ (geomIn.k = "obj" /\ g = ExampleGeometry) =>
            geomOut.lines = << << <<20, 10>>, <<21, 11>> >> >>

C7_Witness ==
  /\ geomOut.done
  /\ geomIn.k = "obj"
  /\ geomIn.ors_geometry = Geom(<<NotALine, Line(<<Point(10, 20), Point(11, 21)>>)>>)
  /\ geomOut.lines = << << <<20, 10>>, <<21, 11>> >> >>

\* C8 as stated: every one of id, name, latitude and longitude takes the
\* lower-case field and falls back to the capitalized one, the name falling
\* back to the id last; with both conventions present and different the
\* lower-case values win.
C8_LowerCaseFirst ==
  normOut.done =>
    /\ normOut.id = IF Truthy(normIn.station_id) THEN normIn.station_id
                    ELSE normIn.StationId
    /\ normOut.name = IF Truthy(normIn.station_name) THEN normIn.station_name
                      ELSE IF Truthy(normIn.StationName) THEN normIn.StationName
                      ELSE normOut.id
    /\ normOut.lat = IF Nullish(normIn.latitude) THEN parseFloat(normIn.Latitude)
                     ELSE parseFloat(normIn.latitude)
    /\ normOut.lon = IF Nullish(normIn.longitude) THEN parseFloat(normIn.Longitude)
                     ELSE parseFloat(normIn.longitude)

\* C8 amended: id takes station_id unless it is absent or empty, then
\* StationId; latitude and longitude take the lower-case field unless it is
\* absent or null, then the capitalized one; the display name takes
\* StationName first, then station_name, then the id.
C8_ResolutionOrder ==
  normOut.done =>
    /\ Truthy(normIn.station_id) => normOut.id = normIn.station_id
    /\ ~Truthy(normIn.station_id) => normOut.id = normIn.StationId
    /\ Truthy(normIn.StationName) => normOut.name = normIn.StationName
    /\ (~Truthy(normIn.StationName) /\ Truthy(normIn.station_name)) =>
         normOut.name = normIn.station_name
    /\ (~Truthy(normIn.StationName) /\ ~Truthy(normIn.station_name)) =>
         normOut.name = normOut.id
    /\ ~Nullish(normIn.latitude) => normOut.lat = parseFloat(normIn.latitude)
    /\ Nullish(normIn.latitude) => normOut.lat = parseFloat(normIn.Latitude)
    /\ ~Nullish(normIn.longitude) => normOut.lon = parseFloat(normIn.longitude)
    /\ Nullish(normIn.longitude) => normOut.lon = parseFloat(normIn.Longitude)

C8_Witness ==
  /\ normOut.done
  /\ Truthy(normIn.station_id) /\ Truthy(normIn.StationId)
  /\ normIn.station_id # normIn.StationId
  /\ Truthy(normIn.station_name) /\ Truthy(normIn.StationName)
  /\ normIn.station_name # normIn.StationName
  /\ normOut.id = normIn.station_id
  /\ normOut.name = normIn.StationName

\* A string parses to a number when, after leading blanks and an optional
\* sign, it starts with a digit or with a point followed by a digit.
StartsNumber(cs) == \/ Len(cs) >= 1 /\ cs[1] \in Digits
                    \/ Len(cs) >= 2 /\ cs[1] = "." /\ cs[2] \in Digits

ParsesToNumber(cs) ==
  \E k \in 0..Len(cs) :
    /\ \A j \in 1..k : cs[j] = " "
    /\ LET r == SubSeq(cs, k + 1, Len(cs))
       IN \/ StartsNumber(r)
          \/ Len(r) >= 1 /\ r[1] \in {"+", "-"} /\ StartsNumber(Tail(r))

HasCoordinates(s) ==
  /\ ParsesToNumber(ToString(Coalesce(s.latitude, s.Latitude)))
  /\ ParsesToNumber(ToString(Coalesce(s.longitude, s.Longitude)))

C10_LastResponseWins ==
  /\ [](lastOk.raced => routesResult = lastOk.body)
  /\ [][inflight \ inflight' # {} =>
          /\ lastEvent'.kind \in Completion
          /\ Cardinality(inflight \ inflight') = 1]_vars
  /\ [][lastEvent'.kind = "predict" => inflight \subseteq inflight']_vars

C10_Witness ==
  /\ lastOk.raced
  /\ lastOk.rid < lastOk.prevRid
  /\ lastEvent.kind = "predictOk"
  /\ routesResult = lastOk.body
  /\ routesResult.k = "obj"
  /\ inflight = {}

====
